---- MODULE Spec2Model ----
(***************************************************************************)
(* Model of the ironx contract layer (ironx/src/lib.rs) and of its         *)
(* database mirror (ironx_db/src/lib.rs).                                  *)
(*                                                                         *)
(* Option<T> values are sets with at most one element, Result<S, F> values *)
(* are records [ok, val].  A shared reference to a value that no operation *)
(* of the layer can mutate is modelled by the value it refers to.  The     *)
(* trait methods Application::init and Command::call are implemented by    *)
(* the embedding application: the model fixes one implementation per       *)
(* behaviour, drawn in Init from a family of deterministic functions that  *)
(* contains the implementations of the crate's own tests.                  *)
(***************************************************************************)
EXTENDS Naturals, Sequences, FiniteSets, TLC

\* ---------------------------------------------------------------- bounds
MaxTasks == 2      \* dispatches in flight at the same time
MaxInits == 2      \* calls of AppContainerBuilder::init in one behaviour

\* ------------------------------------------------------------ value sets
Visitors == {"Alice", "Bob"}           \* App::Ctx values, Vistor(String)
Hosts == {"Iron X", "Acme"}            \* App::Env values, Host(String)
Configs == Hosts                       \* App::Config values, String
Locations == {"Rustland", "Ferris"}    \* GreetingsFrom.location values
InitErrors == {"BadConfig"}            \* App::Error values
Failures == {"Denied"}                 \* Command::Failure values
Successes == {"Pong"}                  \* Command::Success of the abstract command

Ok(v) == [ok |-> TRUE, val |-> v]
Err(e) == [ok |-> FALSE, val |-> e]

\* Variant: resolution hands out a fresh, empty value instead of self
Resource_resource_Fresh(self) == <<>>

\* ------------------------------------------------- Resource (lib.rs 63-71)
\* impl<T: Stable> Resource<T> for T: fn resource(&self) -> &T { self }
Resource_resource(self) == self

\* ------------------------------------------ Application (lib.rs 273-286)
\* struct Greetings(Host)
Greetings(host) == [env |-> host]
Applications == {Greetings(h) : h \in Hosts}

\* Greetings::init: Ok(Self(Host(config)))
Greetings_init == [config \in Configs |-> Ok(Greetings(config))]

\* Greetings::env: &self.0
Application_env(app) == app.env

\* The implementations Application::init may have: any deterministic
\* function from Config to Result<Self, Error>.
InitImpls == [Configs -> {Ok(a) : a \in Applications} \cup {Err(e) : e \in InitErrors}]

\* ---------------------------------------------- Command (lib.rs 288-314)
GreetingsFrom(location) == [kind |-> "GreetingsFrom", location |-> location]
Ping == [kind |-> "Ping", location |-> ""]
Commands == {GreetingsFrom(l) : l \in Locations} \cup {Ping}

\* Variant: the name and the host are written in each other's place
GreetingsFrom_call_Swapped(self, ctx, env) ==
    Ok("Hello " \o env \o ", welcome to " \o self.location
        \o " on behalf of " \o ctx \o "!")

\* GreetingsFrom::call: write!(message, "Hello {name}, welcome to {location}
\* on behalf of {host}!"); writing to a String never fails.
GreetingsFrom_call(self, ctx, env) ==
    Ok("Hello " \o Resource_resource(ctx) \o ", welcome to " \o self.location
        \o " on behalf of " \o Resource_resource(env) \o "!")

\* The implementations Command::call may have for the abstract command.
CallImpls == [Visitors \X Hosts -> {Ok(s) : s \in Successes} \cup {Err(f) : f \in Failures}]

\* ------------------------------------------ Db / Query (ironx_db/src/lib.rs)
Keys == {11, 99}                       \* u8 keys of the Registry
Vals == {42, 7}                        \* u8 values of the Registry
Unit == "()"                           \* the value of FetchValue::Failure = ()

\* Registry::new: Self(HashMap::from_iter([(key, val)]))
Registry_new(key, val) == [k \in {key} |-> val]

\* Db::new: Self(resource, PhantomData)
Db_new(resource) == [variant |-> "Db", resource |-> resource]

FetchValue(key) == [kind |-> "FetchValue", key |-> key]
Queries == {FetchValue(k) : k \in Keys}

\* Variant: the lookup ignores the key and yields an entry of the map
FetchValue_call_Any(self, resource) ==
    Ok(resource[CHOOSE k \in DOMAIN resource : TRUE])

\* FetchValue::call: resource.0.get(&self.0).copied().ok_or(())
FetchValue_call(self, resource) ==
    IF self.key \in DOMAIN resource THEN Ok(resource[self.key]) ELSE Err(Unit)

\* Db::query: the argument of query.call, self.0.resource()
Db_query_arg(self) == Resource_resource(self.resource)

\* Variant: a failed query is replaced by the default value
Db_query_return_Default(returned) ==
    IF returned.ok THEN returned ELSE Ok(0)

\* Db::query's value: the value of `query.call(..).await`, returned as it is
Db_query_return(returned) == returned

VARIABLES
    db,           \* Option<Db<Registry, Registry>>
    app_init,     \* the implementation of Application::init
    cmd_call,     \* the implementation of Command::call for Ping
    builder,      \* Option<AppContainerBuilder>
    init_pending, \* Option of the suspended AppContainerBuilder::init
    init_calls,   \* number of calls of Application::init
    builds,       \* number of calls of AppContainerBuilder::init
    init_error,   \* Option of the Err returned by AppContainerBuilder::init
    container,    \* Option<AppContainer>
    substitute,   \* Option of the caller's context lent to with_context
    borrowed,     \* Option<BorrowedRuntime>
    tasks         \* the run_command futures, by slot

vars == <<db, app_init, cmd_call, builder, init_pending, init_calls, builds,
          init_error, container, substitute, borrowed, tasks>>

\* Command::call, dispatched on the command's type
Command_call(impl, cmd, ctx, env) ==
    IF cmd.kind = "GreetingsFrom" THEN GreetingsFrom_call(cmd, ctx, env)
    ELSE impl[<<ctx, env>>]

Slots == 1..MaxTasks
FreeTask == [pc |-> "free"]
FreeSlots == {s \in Slots : tasks[s].pc = "free"}
Live == Slots \ FreeSlots

Init ==
    /\ app_init \in InitImpls
    /\ cmd_call \in CallImpls
    /\ builder = {}
    /\ init_pending = {}
    /\ init_calls = 0
    /\ builds = 0
    /\ init_error = {}
    /\ container = {}
    /\ substitute = {}
    /\ borrowed = {}
    /\ tasks = [s \in Slots |-> FreeTask]
    /\ db = {}

\* Both layers together: the application of the crate's tests, and the
\* implementations of Command::call whose outcome depends on the context only
InitAll ==
    /\ Init
    /\ app_init = Greetings_init
    /\ \A c \in Visitors : \A h1, h2 \in Hosts : cmd_call[<<c, h1>>] = cmd_call[<<c, h2>>]

TheContainer == CHOOSE c \in container : TRUE

\* --------------------------------------- AppContainer (lib.rs 208-249)
\* AppContainer::with_default_context: AppContainerBuilder { default_context: ctx }
AppContainer_with_default_context(ctx) == [default_context |-> ctx]

\* AppContainerBuilder::init, after App::init(config).await? yielded app:
\* Ok(AppContainer { app, default_context: self.default_context })
AppContainerBuilder_build(self, app) ==
    [app |-> app, default_context |-> self.default_context]

\* BorrowedRuntime::new: Self { application, context }
BorrowedRuntime_new(application, context) ==
    [variant |-> "BorrowedRuntime", application |-> application, context |-> context]

\* Variant: the supplied context is dropped in favour of the stored default
AppContainer_with_context_Default(self, ctx) ==
    BorrowedRuntime_new(self.app, self.default_context)

\* AppContainer::with_context: BorrowedRuntime::new(&self.app, ctx)
AppContainer_with_context(self, ctx) == BorrowedRuntime_new(self.app, ctx)

\* The receiver of a run_command made on the container itself (&self)
OwnedRuntime == [variant |-> "AppContainer"]

\* AppContainer::run_command: the arguments of cmd.call,
\* (&self.default_context, self.app.env())
AppContainer_run_command_args(self) ==
    <<self.default_context, Application_env(self.app)>>

\* BorrowedRuntime::run_command: the arguments of cmd.call,
\* (self.context, self.application.env())
BorrowedRuntime_run_command_args(self) ==
    <<self.context, Application_env(self.application)>>

\* Variant: the container reads its context from a slot shared with the
\* live BorrowedRuntime
Runtime_args_Shared(rt) ==
    IF rt.variant = "AppContainer"
    THEN IF borrowed = {} THEN AppContainer_run_command_args(TheContainer)
         ELSE <<(CHOOSE b \in borrowed : TRUE).context, Application_env(TheContainer.app)>>
    ELSE BorrowedRuntime_run_command_args(rt)

\* The (ctx, env) a run_command future forwards, by the variant of its receiver
Runtime_args(rt) ==
    IF rt.variant = "AppContainer" THEN AppContainer_run_command_args(TheContainer)
    ELSE BorrowedRuntime_run_command_args(rt)

\* AppContainer::run_command's value: the value of
\* `cmd.call(&self.default_context, self.app.env()).await`, returned as it is
AppContainer_run_command_return(returned) == returned

\* Variant: the command's failure is translated into a failure of the runtime
BorrowedRuntime_run_command_return_Mapped(returned) ==
    IF returned.ok THEN returned ELSE Err("Failure")

\* BorrowedRuntime::run_command's value: the value of
\* `cmd.call(self.context, self.application.env()).await`, returned as it is
BorrowedRuntime_run_command_return(returned) == returned

\* The value a run_command future resolves to, by the variant of its receiver
Runtime_return(rt, returned) ==
    IF rt.variant = "AppContainer" THEN AppContainer_run_command_return(returned)
    ELSE BorrowedRuntime_run_command_return(returned)

\* ------------------------------------------------------------- actions
\* let builder = AppContainer::with_default_context(ctx)
WithDefaultContext(ctx) ==
    /\ builder = {} /\ init_pending = {} /\ container = {}
    /\ builds < MaxInits
    /\ builder' = {AppContainer_with_default_context(ctx)}
    /\ UNCHANGED <<db, app_init, cmd_call, init_pending, init_calls, builds,
                   init_error, container, substitute, borrowed, tasks>>

\* builder.init(config): consumes the builder, calls App::init(config) and
\* suspends on it
BuilderInit(config) ==
    /\ builder # {}
    /\ \E b \in builder :
          init_pending' = {[self |-> b, config |-> config]}
    /\ builder' = {}
    /\ init_calls' = init_calls + 1
    /\ builds' = builds + 1
    /\ init_error' = {}
    /\ UNCHANGED <<db, app_init, cmd_call, container, substitute, borrowed, tasks>>

\* Variant: the application's error is replaced by an error of the builder
InitComplete_Masked ==
    /\ init_pending # {}
    /\ \E p \in init_pending :
          LET r == app_init[p.config] IN
          IF r.ok
          THEN /\ container' = {AppContainerBuilder_build(p.self, r.val)}
               /\ init_error' = {}
          ELSE /\ container' = {}
               /\ init_error' = {Err("InitFailed")}
    /\ init_pending' = {}
    /\ UNCHANGED <<db, app_init, cmd_call, builder, init_calls, builds,
                   substitute, borrowed, tasks>>

\* App::init(config) resolves: `?` returns its Err, otherwise the container
\* is built from the application and the builder's context
InitComplete ==
    /\ init_pending # {}
    /\ \E p \in init_pending :
          LET r == app_init[p.config] IN
          IF r.ok
          THEN /\ container' = {AppContainerBuilder_build(p.self, r.val)}
               /\ init_error' = {}
          ELSE /\ container' = {}
               /\ init_error' = {Err(r.val)}
    /\ init_pending' = {}
    /\ UNCHANGED <<db, app_init, cmd_call, builder, init_calls, builds,
                   substitute, borrowed, tasks>>

\* Variant: with_context stores the supplied context as the default
WithContext_Store(ctx) ==
    /\ container # {}
    /\ borrowed = {}
    /\ substitute' = {ctx}
    /\ borrowed' = {AppContainer_with_context(TheContainer, ctx)}
    /\ container' = {[TheContainer EXCEPT !.default_context = ctx]}
    /\ UNCHANGED <<db, app_init, cmd_call, builder, init_pending, init_calls, builds,
                   init_error, tasks>>

\* let ctx = ..; let rt = container.with_context(&ctx)
WithContext(ctx) ==
    /\ container # {}
    /\ borrowed = {}
    /\ substitute' = {ctx}
    /\ borrowed' = {AppContainer_with_context(TheContainer, ctx)}
    /\ UNCHANGED <<db, app_init, cmd_call, builder, init_pending, init_calls, builds,
                   init_error, container, tasks>>

\* the BorrowedRuntime and the context lent to it go out of scope
DropBorrowed ==
    /\ borrowed # {}
    /\ \A s \in Live : tasks[s].rt.variant # "BorrowedRuntime"
    /\ borrowed' = {}
    /\ substitute' = {}
    /\ UNCHANGED <<db, app_init, cmd_call, builder, init_pending, init_calls, builds,
                   init_error, container, tasks>>

\* A run_command future is polled: it calls cmd.call with its receiver's
\* references and suspends on the returned future
StartTask(rt, cmd) ==
    /\ FreeSlots # {}
    /\ LET s == CHOOSE f \in FreeSlots : \A g \in FreeSlots : f <= g IN
       tasks' = [tasks EXCEPT ![s] =
                    [pc |-> "awaiting", rt |-> rt, cmd |-> cmd, calls |-> 1]]

\* container.run_command(&cmd)
RunCommand(cmd) ==
    /\ container # {}
    /\ StartTask(OwnedRuntime, cmd)
    /\ UNCHANGED <<db, app_init, cmd_call, builder, init_pending, init_calls, builds,
                   init_error, container, substitute, borrowed>>

\* rt.run_command(&cmd) on the BorrowedRuntime
BorrowedRunCommand(cmd) ==
    /\ borrowed # {}
    /\ \E rt \in borrowed : StartTask(rt, cmd)
    /\ UNCHANGED <<db, app_init, cmd_call, builder, init_pending, init_calls, builds,
                   init_error, container, substitute, borrowed>>

\* Variant: a failed call is made once more before its failure is returned
Complete_Retry(s) ==
    /\ tasks[s].pc = "awaiting"
    /\ tasks[s].rt.variant # "Db"
    /\ LET t == tasks[s]
           a == Runtime_args(t.rt)
           returned == Command_call(cmd_call, t.cmd, a[1], a[2])
       IN IF ~returned.ok /\ t.calls < 2
          THEN tasks' = [tasks EXCEPT ![s].calls = t.calls + 1]
          ELSE tasks' = [tasks EXCEPT ![s] =
                       [pc |-> "done", rt |-> t.rt, cmd |-> t.cmd, calls |-> t.calls,
                        result |-> Runtime_return(t.rt, returned)]]
    /\ UNCHANGED <<db, app_init, cmd_call, builder, init_pending, init_calls, builds,
                   init_error, container, substitute, borrowed>>

\* cmd.call(ctx, env) resolves and run_command returns its value
Complete(s) ==
    /\ tasks[s].pc = "awaiting"
    /\ tasks[s].rt.variant # "Db"
    /\ LET t == tasks[s]
           a == Runtime_args(t.rt)
           returned == Command_call(cmd_call, t.cmd, a[1], a[2])
       IN tasks' = [tasks EXCEPT ![s] =
                       [pc |-> "done", rt |-> t.rt, cmd |-> t.cmd, calls |-> t.calls,
                        result |-> Runtime_return(t.rt, returned)]]
    /\ UNCHANGED <<db, app_init, cmd_call, builder, init_pending, init_calls, builds,
                   init_error, container, substitute, borrowed>>

\* the caller takes the result of a finished run_command
Collect(s) ==
    /\ tasks[s].pc = "done"
    /\ tasks' = [tasks EXCEPT ![s] = FreeTask]
    /\ UNCHANGED <<db, app_init, cmd_call, builder, init_pending, init_calls, builds,
                   init_error, container, substitute, borrowed>>

\* let db = Db::new(Registry::new(key, val))
DbNew(key, val) ==
    /\ db = {}
    /\ db' = {Db_new(Registry_new(key, val))}
    /\ UNCHANGED <<app_init, cmd_call, builder, init_pending, init_calls, builds,
                   init_error, container, substitute, borrowed, tasks>>

\* db.query(&q) is polled: it resolves the resource, calls q.call with it
\* and suspends on the returned future
DbQuery(q) ==
    /\ db # {}
    /\ \E d \in db : StartTask(d, q)
    /\ UNCHANGED <<db, app_init, cmd_call, builder, init_pending, init_calls, builds,
                   init_error, container, substitute, borrowed>>

\* q.call(resource) resolves and Db::query returns its value
QueryComplete(s) ==
    /\ tasks[s].pc = "awaiting"
    /\ tasks[s].rt.variant = "Db"
    /\ LET t == tasks[s]
           returned == FetchValue_call(t.cmd, Db_query_arg(t.rt))
       IN tasks' = [tasks EXCEPT ![s] =
                       [pc |-> "done", rt |-> t.rt, cmd |-> t.cmd, calls |-> t.calls,
                        result |-> Db_query_return(returned)]]
    /\ UNCHANGED <<db, app_init, cmd_call, builder, init_pending, init_calls, builds,
                   init_error, container, substitute, borrowed>>

NextApp ==
    \/ \E ctx \in Visitors : WithDefaultContext(ctx)
    \/ \E config \in Configs : BuilderInit(config)
    \/ InitComplete
    \/ \E ctx \in Visitors : WithContext(ctx)
    \/ DropBorrowed
    \/ \E cmd \in Commands : RunCommand(cmd)
    \/ \E cmd \in Commands : BorrowedRunCommand(cmd)
    \/ \E s \in Slots : Complete(s)
    \/ \E s \in Slots : Collect(s)

NextDb ==
    \/ \E k \in Keys, v \in Vals : DbNew(k, v)
    \/ \E q \in Queries : DbQuery(q)
    \/ \E s \in Slots : QueryComplete(s)
    \/ \E s \in Slots : Collect(s)

Next == NextApp \/ NextDb

\* The application layer alone, the database layer alone, and both
Spec == Init /\ [][NextApp]_vars
SpecDb == Init /\ [][NextDb]_vars
SpecAll == InitAll /\ [][Next]_vars

\* ------------------------------------------------------------ properties
Done == {s \in Slots : tasks[s].pc = "done"}
DoneOf(variant) == {s \in Done : tasks[s].rt.variant = variant}
DoneApp == DoneOf("AppContainer") \cup DoneOf("BorrowedRuntime")
TheDb == CHOOSE d \in db : TRUE
TheSubstitute == CHOOSE c \in substitute : TRUE

\* The context and the application a runtime holds
HeldCtx(rt) ==
    IF rt.variant = "AppContainer" THEN TheContainer.default_context ELSE rt.context
HeldApp(rt) ==
    IF rt.variant = "AppContainer" THEN TheContainer.app ELSE rt.application

\* The greeting that names visitor n, location l and host h
Greeting(n, l, h) == "Hello " \o n \o ", welcome to " \o l \o " on behalf of " \o h \o "!"

\* C1: for both runtime variants, a finished run_command has returned exactly
\* cmd.call(ctx, env) for the context the runtime holds and the env() of the
\* application it holds, and every run_command has invoked cmd.call exactly once.
C1_RunCommandForwards ==
    /\ \A s \in Live : tasks[s].rt.variant # "Db" => tasks[s].calls = 1
    /\ \A s \in DoneApp :
          tasks[s].result =
             Command_call(cmd_call, tasks[s].cmd, HeldCtx(tasks[s].rt),
                          Application_env(HeldApp(tasks[s].rt)))

\* C1 witness: a failed dispatch on the container and a successful one on a
\* BorrowedRuntime holding another context have both returned
C1_Witness ==
    \E s1 \in DoneOf("AppContainer"), s2 \in DoneOf("BorrowedRuntime") :
        /\ ~tasks[s1].result.ok
        /\ tasks[s2].result.ok
        /\ tasks[s2].rt.context # TheContainer.default_context

\* C2: with default context A and a command that reports the context's
\* identity, a dispatch through with_context(B) reports B, every dispatch on
\* the container itself reports A, and the stored default never changes.
C2_Reports(s, n) ==
    \E h \in Hosts : tasks[s].result = Ok(Greeting(n, tasks[s].cmd.location, h))

C2_ContextSubstitution ==
    /\ [](\A s \in DoneApp : tasks[s].cmd.kind = "GreetingsFrom" =>
             IF tasks[s].rt.variant = "BorrowedRuntime"
             THEN C2_Reports(s, TheSubstitute)
             ELSE C2_Reports(s, TheContainer.default_context))
    /\ [][container # {} =>
             /\ container' # {}
             /\ \A c \in container, d \in container' :
                   d.default_context = c.default_context]_vars

\* C2 witness: next to a live BorrowedRuntime for B # A, a substituted
\* dispatch has reported B and a dispatch on the container has reported A
C2_Witness ==
    \E s1 \in DoneOf("BorrowedRuntime"), s2 \in DoneOf("AppContainer") :
        /\ tasks[s1].cmd.kind = "GreetingsFrom"
        /\ tasks[s2].cmd.kind = "GreetingsFrom"
        /\ TheSubstitute # TheContainer.default_context
        /\ C2_Reports(s1, TheSubstitute)
        /\ C2_Reports(s2, TheContainer.default_context)

\* C3: AppContainerBuilder::init calls Application::init once per call; when
\* that fails its Err is returned unchanged and no container exists; when it
\* succeeds the container holds exactly the application init produced and
\* the context given to with_default_context.
C3_InitDelegates ==
    /\ [](init_calls = builds)
    /\ [](init_error # {} => container = {})
    /\ [][(builder # {} /\ init_pending' # {}) =>
             \A b \in builder, p \in init_pending' : p.self = b]_vars
    /\ [][(init_pending # {} /\ init_pending' = {}) =>
             \A p \in init_pending :
                LET r == app_init[p.config] IN
                IF r.ok
                THEN /\ container' = {[app |-> r.val,
                                       default_context |-> p.self.default_context]}
                     /\ init_error' = {}
                ELSE /\ container' = {}
                     /\ init_error' = {Err(r.val)}]_vars

\* C3 witness: a first init has failed and left no container, and a second
\* one has built the container around the second builder's context
C3_Witness ==
    /\ builds = 2
    /\ init_error = {}
    /\ container # {}
    /\ \E c \in Configs : app_init[c] = Ok(TheContainer.app)

\* C4: a BorrowedRuntime and the AppContainer, holding equal applications and
\* equal contexts, have returned identical results for the same command.
C4_DispatchEquivalence ==
    \A s1 \in DoneOf("BorrowedRuntime"), s2 \in DoneOf("AppContainer") :
        (/\ tasks[s1].cmd = tasks[s2].cmd
         /\ tasks[s1].rt.application = TheContainer.app
         /\ tasks[s1].rt.context = TheContainer.default_context)
        => tasks[s1].result = tasks[s2].result

\* C4 witness: the same failing command has returned from a BorrowedRuntime
\* and from the container, both holding the same application and context
C4_Witness ==
    \E s1 \in DoneOf("BorrowedRuntime"), s2 \in DoneOf("AppContainer") :
        /\ tasks[s1].cmd = tasks[s2].cmd
        /\ tasks[s1].rt.application = TheContainer.app
        /\ tasks[s1].rt.context = TheContainer.default_context
        /\ ~tasks[s2].result.ok

\* C5: once init has succeeded, no run_command and no with_context changes
\* the held application, its env() or the stored default context.
C5_ContainerFrame ==
    [][container # {} =>
          /\ container' = container
          /\ \A c \in container, d \in container' :
                Application_env(d.app) = Application_env(c.app)]_vars

\* C5 witness: dispatches with the default and with a different, substituted
\* context have both run on the container
C5_Witness ==
    \E s1 \in DoneOf("BorrowedRuntime"), s2 \in DoneOf("AppContainer") :
        /\ substitute # {}
        /\ TheSubstitute # TheContainer.default_context
        /\ tasks[s1].rt.context = TheSubstitute

\* The result the call behind a finished dispatch or query produces
Expected(t) ==
    IF t.rt.variant = "Db" THEN FetchValue_call(t.cmd, TheDb.resource)
    ELSE Command_call(cmd_call, t.cmd, HeldCtx(t.rt), Application_env(HeldApp(t.rt)))

\* C6: when cmd.call or Query::call fails, run_command or Db::query returns
\* that very failure after a single call, and the step that returns it leaves
\* the container, the database, the BorrowedRuntime and every other dispatch
\* as they were.
C6_FailurePropagation ==
    /\ [](\A s \in Done :
             ~Expected(tasks[s]).ok =>
                 /\ tasks[s].result = Expected(tasks[s])
                 /\ tasks[s].calls = 1)
    /\ [](\A s \in Done :
             ~tasks[s].result.ok => tasks[s].result = Expected(tasks[s]))
    /\ [][\A s \in Slots :
             (tasks[s].pc = "awaiting" /\ tasks'[s].pc = "done" /\ ~tasks'[s].result.ok)
             => /\ container' = container
                /\ db' = db
                /\ borrowed' = borrowed
                /\ substitute' = substitute
                /\ \A o \in Slots \ {s} : tasks'[o] = tasks[o]]_vars

\* C6 witness: a failed run_command and a failed query have both returned
C6_Witness ==
    \E s1 \in DoneApp, s2 \in DoneOf("Db") :
        /\ tasks[s1].result = Err("Denied")
        /\ tasks[s2].result = Err(Unit)

\* C7: Db::query(q) returns q.call(r) for the resource r handed to Db::new: a
\* lookup of key k succeeds with v when the map holds k -> v and fails when k
\* is absent; on {11 -> 42}, FetchValue(11) gives 42 and FetchValue(99) fails.
C7_DbQuery ==
    \A s \in DoneOf("Db") :
        LET k == tasks[s].cmd.key
            r == TheDb.resource
        IN /\ tasks[s].calls = 1
           /\ k \in DOMAIN r => tasks[s].result = Ok(r[k])
           /\ k \notin DOMAIN r => tasks[s].result = Err(Unit)
           /\ (r = (11 :> 42) /\ k = 11) => tasks[s].result = Ok(42)
           /\ (r = (11 :> 42) /\ k = 99) => tasks[s].result = Err(Unit)

\* C7 witness: on the map {11 -> 42}, FetchValue(11) has returned 42 and
\* FetchValue(99) has failed
C7_Witness ==
    /\ db = {Db_new(Registry_new(11, 42))}
    /\ \E s1, s2 \in DoneOf("Db") :
          /\ tasks[s1].cmd = FetchValue(11) /\ tasks[s1].result = Ok(42)
          /\ tasks[s2].cmd = FetchValue(99) /\ tasks[s2].result = Err(Unit)

\* The context a dispatch was issued with: the caller's substituted context
\* for a dispatch through with_context, the stored default otherwise
OwnCtx(t) ==
    IF t.rt.variant = "BorrowedRuntime" THEN TheSubstitute
    ELSE TheContainer.default_context

\* C8: dispatches in flight together on one container are independent: each
\* returns what it returns when run alone with its own context and the shared
\* env, and the return of one changes no other dispatch.
C8_ConcurrentDispatch ==
    /\ [](\A s \in DoneApp :
             tasks[s].result =
                Command_call(cmd_call, tasks[s].cmd, OwnCtx(tasks[s]),
                             Application_env(TheContainer.app)))
    /\ [][\A s \in Slots :
             (tasks[s].pc = "awaiting" /\ tasks'[s].pc = "done")
             => \A o \in Slots \ {s} : tasks'[o] = tasks[o]]_vars

\* C8 witness: a default and a substituted dispatch of one command, issued
\* with different contexts, hold their results side by side and the results
\* differ
C8_Witness ==
    \E s1 \in DoneOf("BorrowedRuntime"), s2 \in DoneOf("AppContainer") :
        /\ tasks[s1].cmd = tasks[s2].cmd
        /\ TheSubstitute # TheContainer.default_context
        /\ tasks[s1].result # tasks[s2].result

\* C9: resolving Resource<T> on a value of type T yields the value itself:
\* the resource a query is called with is the value the Db wraps, and
\* resolution maps every registry to itself.
C9_ResourceReflexive ==
    /\ \A d \in db : Db_query_arg(d) = d.resource
    /\ \A s \in Live : tasks[s].rt.variant = "Db" =>
           Resource_resource(tasks[s].rt.resource) = TheDb.resource
    /\ \A k \in Keys, v \in Vals :
           Resource_resource(Registry_new(k, v)) = Registry_new(k, v)

\* C9 witness: a query has been called with the resolved resource
C9_Witness ==
    \E s \in DoneOf("Db") :
        /\ tasks[s].result.ok
        /\ Db_query_arg(tasks[s].rt) = Registry_new(11, 42)

\* C10: on a container initialised with config h and default context n, a
\* GreetingsFrom with location l returns "Hello n, welcome to l on behalf of
\* h!"; Greetings::init makes the config the host of the env.
C10_Greeting ==
    /\ [](\A s \in DoneOf("AppContainer") :
             tasks[s].cmd.kind = "GreetingsFrom" =>
                /\ tasks[s].result =
                      Ok(Greeting(TheContainer.default_context, tasks[s].cmd.location,
                                  TheContainer.app.env))
                /\ (/\ TheContainer.default_context = "Alice"
                    /\ tasks[s].cmd.location = "Rustland"
                    /\ TheContainer.app.env = "Iron X")
                   => tasks[s].result =
                         Ok("Hello Alice, welcome to Rustland on behalf of Iron X!"))
    /\ [][(app_init = Greetings_init /\ init_pending # {} /\ init_pending' = {}) =>
             \A p \in init_pending :
                \A c \in container' : Application_env(c.app) = p.config]_vars

\* C10 witness: the greeting of the crate's test has been returned
C10_Witness ==
    /\ app_init = Greetings_init
    /\ \E s \in DoneOf("AppContainer") :
          tasks[s].result = Ok("Hello Alice, welcome to Rustland on behalf of Iron X!")
====
